---- MODULE Spec2Model ----
(***************************************************************************)
(* DataManager (DataManager.js, kept as src/unnamed/part_000): the cache,  *)
(* fetch / retry / cancel, debounce and the collection helpers, as a state *)
(* machine.  Every asynchronous function is cut at its awaits: the part    *)
(* that runs synchronously up to an await is one action, each continuation *)
(* is another.  The continuation that rejects an aborted fetch() or        *)
(* response.json() is a microtask of the task that called abort(): it runs *)
(* before any other task does, so network events, timers and the clock     *)
(* wait for it (NoRejectionDue), while further synchronous calls of the    *)
(* API may come first.                                                     *)
(*                                                                         *)
(* Time is counted in ticks of the clock Date.now() reads.  The code uses  *)
(* the clock only in differences, so the model keeps the differences: a    *)
(* cache entry carries its age, Date.now() - timestamp, counted up to      *)
(* config.cacheExpiry (from where on isCacheValid no longer changes), and  *)
(* a timer carries the ticks left until it is due.  Tick is one tick of    *)
(* the clock.  A timer that is due fires at some later step: setTimeout    *)
(* promises no more.                                                       *)
(***************************************************************************)
EXTENDS Integers, Sequences, FiniteSets, TLC

VARIABLES
    config,           \* this.config
    cache,            \* this.cache: key -> [data, age]
    requestCount,     \* this.requestCount
    abortController,  \* this.abortController: 0 (null) or the call that owns it
    debounceTimer,    \* this.debounceTimer: 0 (null) or the id of a timer
    timers,           \* the debounce timers setTimeout holds: id -> ticks left
    wrappers,         \* closures returned by debounceSearch
    calls,            \* the fetchData calls made so far, in call order
    lastInv,          \* the latest invocation of a wrapper
    listeners,        \* this.listeners: event -> callbacks in registration order
    app,              \* the DataManagerApp that owns the manager
    emitted,          \* the notifications of the step just taken, in order
    ret               \* what the step just taken returned or settled

vars == <<config, cache, requestCount, abortController, debounceTimer,
          timers, wrappers, calls, lastInv, listeners, app, emitted, ret>>

fetchVars == <<cache, requestCount, abortController, calls>>
debounceVars == <<debounceTimer, timers, wrappers, lastInv>>

(***************************************************************************)
(* Bounds of the model.                                                    *)
(***************************************************************************)
MaxCalls == 2        \* fetchData calls in one behaviour
MaxRetries == 2      \* config.maxRetries ranges over 0..MaxRetries
RetryDelay == 1      \* config.retryDelay, in ticks
CacheExpiry == 2     \* config.cacheExpiry, in ticks
DebounceDelay == 2   \* config.debounceDelay, in ticks
MaxInvokes == 3      \* wrapper invocations in one behaviour
MaxWrappers == 2     \* debounceSearch calls in one behaviour
MaxRepeats == 3      \* fetchData calls in one behaviour of SpecSameKey
MaxLoads == 2        \* runs of initialize() in one behaviour of SpecApp
MaxListeners == 3    \* callbacks registered at a time in SpecListeners
MaxWatchers == 2     \* callbacks registered at a time in SpecNotify
MaxWatched == 1      \* fetchData calls in one behaviour of SpecNotify

(***************************************************************************)
(* JavaScript values.                                                      *)
(***************************************************************************)
Null == "null"

\* JSON texts a response body may parse to.
JsonValues == {"[1]", "0"}

\* Errors an attempt can end with.
AbortError == "AbortError"
NetworkErrors == {"Error", "TypeError", "SyntaxError"}

\* ToBoolean of a parsed JSON value, as the test `if (cachedData)` applies it.
ToBoolean(v) == v \notin {"null", "0", "false", "\"\"", "undefined"}

(***************************************************************************)
(* Cache keys.                                                             *)
(***************************************************************************)
\* The parameter names in use, in the order Array.prototype.sort() gives
\* them (UTF-16 code units): "_limit" < "_start" < "userId".
NameOrder == <<"_limit", "_start", "userId">>

NameRank(n) == CHOOSE i \in 1..Len(NameOrder) : NameOrder[i] = n

RECURSIVE InsertName(_, _)
InsertName(n, s) ==
    IF s = <<>> THEN <<n>>
    ELSE IF NameRank(n) < NameRank(Head(s)) THEN <<n>> \o s
    ELSE <<Head(s)>> \o InsertName(n, Tail(s))

\* Object.keys(params).sort()
RECURSIVE SortKeys(_)
SortKeys(names) ==
    IF names = <<>> THEN <<>> ELSE InsertName(Head(names), SortKeys(Tail(names)))

\* Object.keys(params): the names in insertion order.
ObjectKeys(params) == [i \in 1..Len(params) |-> params[i].name]

\* params[key]
ParamValue(params, name) ==
    params[CHOOSE i \in 1..Len(params) : params[i].name = name].value

RECURSIVE JoinAmp(_)
JoinAmp(parts) ==
    IF parts = <<>> THEN ""
    ELSE IF Len(parts) = 1 THEN parts[1]
    ELSE parts[1] \o "&" \o JoinAmp(Tail(parts))

\* Mutant of GenerateCacheKey: the names are not sorted.
GenerateCacheKeyUnsorted(endpoint, params) ==
    LET names == ObjectKeys(params)
        pairs == [i \in 1..Len(names) |->
                    names[i] \o "=" \o ToString(ParamValue(params, names[i]))]
        paramStr == JoinAmp(pairs)
    IN  IF paramStr # "" THEN endpoint \o "?" \o paramStr ELSE endpoint

GenerateCacheKey(endpoint, params) ==
    LET sorted == SortKeys(ObjectKeys(params))
        pairs == [i \in 1..Len(sorted) |->
                    sorted[i] \o "=" \o ToString(ParamValue(params, sorted[i]))]
        paramStr == JoinAmp(pairs)
    IN  IF paramStr # "" THEN endpoint \o "?" \o paramStr ELSE endpoint

\* The requests the model issues: fetchUsers, and fetchPosts(1, 10) with its
\* two parameters in either insertion order.
StartLimit == <<[name |-> "_start", value |-> 0], [name |-> "_limit", value |-> 10]>>
LimitStart == <<[name |-> "_limit", value |-> 10], [name |-> "_start", value |-> 0]>>

Requests ==
    { [endpoint |-> "/users", params |-> <<>>],
      [endpoint |-> "/posts", params |-> StartLimit],
      [endpoint |-> "/posts", params |-> LimitStart] }

CacheKeys == { GenerateCacheKey(r.endpoint, r.params) : r \in Requests }

\* The arguments generateCacheKey is applied to on its own: an endpoint and
\* a parameter object, which is the sequence of its properties in insertion
\* order, no name twice.
Endpoints == {"/posts", "/users"}
ParamNames == {NameOrder[i] : i \in 1..Len(NameOrder)}
ParamValues == {0, 10}
ParamMaps ==
    { p \in UNION { [1..n -> [name : ParamNames, value : ParamValues]] :
                        n \in 0..Len(NameOrder) } :
        \A i, j \in 1..Len(p) : p[i].name = p[j].name => i = j }

\* generateCacheKey(endpoint, params), called on its own.
GenerateCacheKeyCall(endpoint, params) ==
    /\ ret' = [op |-> "generateCacheKey", endpoint |-> endpoint, params |-> params,
               key |-> GenerateCacheKey(endpoint, params)]
    /\ emitted' = <<>>
    /\ UNCHANGED <<config, cache, requestCount, abortController, calls,
                   debounceTimer, timers, wrappers, lastInv, listeners, app>>

(***************************************************************************)
(* Events.                                                                 *)
(***************************************************************************)
EventNames == {"request-started", "request-success", "request-error",
               "cache-hit", "cache-updated", "cache-cleared"}

\* notifyListeners(event, data = null): one more notification in this step.
NotifyListeners(sofar, event, data) == Append(sofar, [event |-> event, data |-> data])

NoRet == [op |-> "none"]

\* The callbacks registered in the model: two that return, one that throws.
Callbacks == {"cb1", "cb2", "cbThrows"}
Throws(cb) == cb = "cbThrows"

\* The events listened to, and the payloads notified, in SpecListeners.
ListenEvents == {"cache-cleared", "request-error"}
Payloads == {Null, "Error"}

\* this.listeners[event], or the empty array where the code finds none.
Registered(ls, event) == IF event \in DOMAIN ls THEN ls[event] ELSE <<>>

\* array.filter(cb => cb !== callback)
RECURSIVE FilterOut(_, _)
FilterOut(cbs, callback) ==
    IF cbs = <<>> THEN <<>>
    ELSE IF Head(cbs) = callback THEN FilterOut(Tail(cbs), callback)
    ELSE <<Head(cbs)>> \o FilterOut(Tail(cbs), callback)

\* this.listeners[event].forEach(callback => callback(data)): the callbacks
\* run in array order; an exception thrown by one ends the forEach and
\* leaves notifyListeners, so the callbacks after it are not called.
RECURSIVE ForEach(_)
ForEach(cbs) ==
    IF cbs = <<>> THEN <<>>
    ELSE IF Throws(Head(cbs)) THEN <<Head(cbs)>>
    ELSE <<Head(cbs)>> \o ForEach(Tail(cbs))

\* The exception a throwing callback throws: an error whose name is not
\* 'AbortError'.
ListenerError == "ListenerError"

\* notifyListeners(event, data) is left by the exception of a callback.
NotifyThrows(ls, event) ==
    LET ran == ForEach(Registered(ls, event))
    IN  ran # <<>> /\ Throws(ran[Len(ran)])

\* on(event, callback), lines 206-211.
On(event, callback) ==
    /\ listeners' = (event :> Append(Registered(listeners, event), callback))
                        @@ listeners
    /\ ret' = [op |-> "on", event |-> event, callback |-> callback]
    /\ emitted' = <<>>
    /\ UNCHANGED <<config, cache, requestCount, abortController, calls,
                   debounceTimer, timers, wrappers, lastInv, app>>

\* off(event, callback), lines 213-217.
Off(event, callback) ==
    /\ listeners' = IF event \in DOMAIN listeners
                     THEN [listeners EXCEPT ![event] = FilterOut(@, callback)]
                     ELSE listeners
    /\ ret' = [op |-> "off", event |-> event, callback |-> callback]
    /\ emitted' = <<>>
    /\ UNCHANGED <<config, cache, requestCount, abortController, calls,
                   debounceTimer, timers, wrappers, lastInv, app>>

\* notifyListeners(event, data) called with listeners registered, lines
\* 219-223: `invoked` are the calls it made, `threw` whether it was left by
\* an exception.
Notify(event, data) ==
    LET ran == ForEach(Registered(listeners, event)) IN
    /\ ret' = [op |-> "notifyListeners", event |-> event, data |-> data,
               invoked |-> [k \in 1..Len(ran) |-> [callback |-> ran[k], data |-> data]],
               threw |-> NotifyThrows(listeners, event)]
    /\ emitted' = NotifyListeners(<<>>, event, data)
    /\ UNCHANGED <<config, cache, requestCount, abortController, calls,
                   debounceTimer, timers, wrappers, lastInv, listeners, app>>

(***************************************************************************)
(* Cache.                                                                  *)
(***************************************************************************)
\* Mutant of IsCacheValid: an entry exactly cacheExpiry old still counts.
IsCacheValidInclusive(cacheEntry) == cacheEntry.age <= config.cacheExpiry

\* Date.now() - cacheEntry.timestamp < this.config.cacheExpiry
IsCacheValid(cacheEntry) == cacheEntry.age < config.cacheExpiry

\* What getCache(key) returns when this.cache is map.
GetCacheData(map, key) ==
    IF key \in DOMAIN map /\ IsCacheValid(map[key])
    THEN map[key].data
    ELSE Null

\* The cache map getCache(key) leaves behind.
GetCacheMap(map, key) ==
    IF key \in DOMAIN map /\ ~IsCacheValid(map[key])
    THEN [k \in DOMAIN map \ {key} |-> map[k]]
    ELSE map

\* this.cache.set(key, {data, timestamp: Date.now()})
CacheSet(map, key, data) ==
    (key :> [data |-> data, age |-> 0]) @@ map

\* Mutant of SetCache: cache-updated is notified before the entry is stored.
SetCacheNotifyFirst(map, sofar, key, data) ==
    [cache |-> CacheSet(map, key, data),
     emitted |-> Append(sofar, [event |-> "cache-updated", data |-> Null,
                                cached |-> GetCacheData(map, key)])]

\* setCache(key, data) with this.cache = map, after the notifications
\* sofar: the map and the notifications it leaves.  Line 34 notifies when
\* line 30 has stored the entry; `cached` is what getCache(key) returns to
\* a listener called at that point.
SetCache(map, sofar, key, data) ==
    [cache |-> CacheSet(map, key, data),
     emitted |-> Append(sofar, [event |-> "cache-updated", data |-> Null,
                                cached |-> GetCacheData(CacheSet(map, key, data), key)])]

GetCache(key) ==
    /\ cache' = GetCacheMap(cache, key)
    /\ ret' = [op |-> "getCache", key |-> key, val |-> GetCacheData(cache, key),
                had |-> key \in DOMAIN cache,
                age |-> IF key \in DOMAIN cache THEN cache[key].age ELSE 0]
    /\ emitted' = <<>>
    /\ UNCHANGED <<config, requestCount, abortController, calls>>
    /\ UNCHANGED debounceVars
    /\ UNCHANGED <<listeners, app>>

\* Mutant of CacheClear: the entries stay.
CacheClearOff(map) == map

\* this.cache.clear()
CacheClear(map) == <<>>

\* clearCache(); `had` is the number of entries it found, `threw` whether
\* it was left by the exception of a cache-cleared listener.
ClearCache ==
    /\ cache' = CacheClear(cache)
    /\ emitted' = NotifyListeners(<<>>, "cache-cleared", Null)
    /\ ret' = [op |-> "clearCache", had |-> Cardinality(DOMAIN cache),
               threw |-> NotifyThrows(listeners, "cache-cleared")]
    /\ UNCHANGED <<config, requestCount, abortController, calls>>
    /\ UNCHANGED debounceVars
    /\ UNCHANGED <<listeners, app>>

GetCacheSize == Cardinality(DOMAIN cache)

\* getStats() assigns nothing: it is the snapshot it returns.  cachedItems
\* is given as the set of the keys.
GetStats ==
    [cacheSize |-> GetCacheSize,
     requestCount |-> requestCount,
     cachedItems |-> DOMAIN cache]

(***************************************************************************)
(* fetchData and fetchWithRetry.                                           *)
(*                                                                         *)
(* A call is at one of its awaits (pc "fetch": await fetch(url, options);  *)
(* "json": await response.json(); "delay": await this.delay(retryDelay))   *)
(* or has settled.  `aborted` is signal.aborted of the AbortController the *)
(* call created.  The other fields record what the call did so far: `log`  *)
(* the events notified on its behalf, `attempts` how often line 59 ran for *)
(* it, `waits` how often it entered the backoff.  When a call settles, the *)
(* promise's outcome is handed to the caller (ret) and the manager keeps   *)
(* nothing of the call.                                                    *)
(***************************************************************************)
SettledCall == [pc |-> "settled"]

Pending(c) == c.pc \in {"fetch", "json", "delay"}

Count(log, e) == Cardinality({i \in 1..Len(log) : log[i] = e})

\* Mutant of CancelPendingRequests: the current controller is left alone.
CancelPendingRequestsOff(cs, controller) == cs

\* cancelPendingRequests(): abort() on the current controller, if any.  On
\* the controller of a settled call abort() has nothing left to reject.
CancelPendingRequests(cs, controller) ==
    IF controller # 0 /\ Pending(cs[controller])
    THEN [cs EXCEPT ![controller].aborted = TRUE]
    ELSE cs

\* cancelPendingRequests() called by the user of the manager.
CancelPendingRequestsCall ==
    /\ calls' = CancelPendingRequests(calls, abortController)
    /\ ret' = [op |-> "cancelPendingRequests"]
    /\ emitted' = <<>>
    /\ UNCHANGED <<config, cache, requestCount, abortController>>
    /\ UNCHANGED debounceVars
    /\ UNCHANGED <<listeners, app>>

\* Mutant of CountRequest: the counter is not incremented.
CountRequestOff(n) == n

\* this.requestCount++
CountRequest(n) == n + 1

\* Mutant of RetriesLeft: the last retry is not made.
RetriesLeftOffByOne(retries) == retries > 1

\* Mutant of RetriesLeft: a retry is always made.
RetriesLeftAlways(retries) == TRUE

\* Line 77: retries > 0
RetriesLeft(retries) == retries > 0

\* Lines 59-62: one more attempt of call c.
StartAttempt(c, retries) ==
    [c EXCEPT !.pc = "fetch", !.retries = retries, !.attempts = @ + 1,
              !.log = Append(@, "request-started")]

\* The events of the notifications es, appended to the log of call c.
Logged(c, es) == [c EXCEPT !.log = @ \o [k \in 1..Len(es) |-> es[k].event]]

\* Lines 72-84 of fetchWithRetry and 116-121 of fetchData: the attempt of
\* call c ended with `error`, thrown by fetch(), by response.json(), by
\* line 65 or by a listener notified inside the try block.  The call goes
\* into its backoff, or it ends rejected (settled) with `value`: with the
\* error, or with the exception of a request-error listener, which leaves
\* line 82 in place of the `throw error` of line 83.
CatchOn(c, error) ==
    IF error = AbortError
    THEN [call |-> c, settled |-> TRUE, value |-> error, emitted |-> <<>>]
    ELSE IF RetriesLeft(c.retries)
    THEN [call |-> [c EXCEPT !.pc = "delay", !.wait = config.retryDelay,
                             !.waits = @ + 1],
          settled |-> FALSE, value |-> Null, emitted |-> <<>>]
    ELSE LET notified == NotifyListeners(<<>>, "request-error", error)
         IN  [call |-> Logged(c, notified), settled |-> TRUE,
              value |-> IF NotifyThrows(listeners, "request-error")
                        THEN ListenerError ELSE error,
              emitted |-> notified]

\* Lines 59-62, and 72-84 when the request-started listener throws: call c
\* starts an attempt with `retries` retries left and comes to `await
\* fetch`, or, fetch() not having been called, to its catch block.
BeginAttempt(c, retries) ==
    LET started == StartAttempt(c, retries)
        notified == NotifyListeners(<<>>, "request-started", Null)
    IN  IF NotifyThrows(listeners, "request-started")
        THEN LET caught == CatchOn(started, ListenerError)
             IN  [caught EXCEPT !.emitted = notified \o @]
        ELSE [call |-> started, settled |-> FALSE, value |-> Null,
              emitted |-> notified]

\* The fields of the manager fetchData works on.
Manager ==
    [cache |-> cache, requestCount |-> requestCount,
     abortController |-> abortController, calls |-> calls]

\* fetchData(endpoint, params, useCache) on the manager m, up to its return
\* on a cache hit or else to `await fetch` of its first attempt: the fields
\* it leaves, what it notified, and the promise it returned.
FetchDataOn(m, endpoint, params, useCache) ==
    LET cacheKey == GenerateCacheKey(endpoint, params)
        cachedData == GetCacheData(m.cache, cacheKey)
        map == IF useCache THEN GetCacheMap(m.cache, cacheKey) ELSE m.cache
        id == Len(m.calls) + 1
        call == [key |-> cacheKey, useCache |-> useCache, pc |-> "fetch",
                 retries |-> 0, aborted |-> FALSE, wait |-> 0,
                 attempts |-> 0, waits |-> 0, log |-> <<>>]
        made == [op |-> "fetchData", id |-> id, endpoint |-> endpoint,
                 params |-> params, useCache |-> useCache]
        begun == BeginAttempt(call, config.maxRetries)
    IN  IF useCache /\ ToBoolean(cachedData)
        THEN [cache |-> map,
              requestCount |-> m.requestCount,
              abortController |-> m.abortController,
              calls |-> Append(m.calls, SettledCall),
              emitted |-> NotifyListeners(<<>>, "cache-hit", Null),
              ret |-> IF NotifyThrows(listeners, "cache-hit")
                      THEN made @@ [outcome |-> "rejected", value |-> ListenerError,
                                    log |-> <<"cache-hit">>]
                      ELSE made @@ [outcome |-> "resolved", value |-> cachedData,
                                    log |-> <<"cache-hit">>]]
        ELSE [cache |-> map,
              requestCount |-> CountRequest(m.requestCount),
              abortController |-> id,
              calls |-> Append(CancelPendingRequests(m.calls, m.abortController),
                               IF begun.settled THEN SettledCall ELSE begun.call),
              emitted |-> begun.emitted,
              ret |-> IF begun.settled
                      THEN made @@ [outcome |-> "rejected", value |-> begun.value,
                                    call |-> begun.call]
                      ELSE made @@ [outcome |-> "pending"]]

FetchData(endpoint, params, useCache) ==
    LET done == FetchDataOn(Manager, endpoint, params, useCache)
    IN  /\ cache' = done.cache
        /\ requestCount' = done.requestCount
        /\ abortController' = done.abortController
        /\ calls' = done.calls
        /\ emitted' = done.emitted
        /\ ret' = done.ret
        /\ UNCHANGED config
        /\ UNCHANGED debounceVars
        /\ UNCHANGED <<listeners, app>>

(***************************************************************************)
(* DataManagerApp (src/app.js), as far as it drives the manager.  A load   *)
(* is one run of initialize(): the two promises given to Promise.all and   *)
(* the path the run took after it.  The listeners the app registers only   *)
(* write to the page and are left out.                                     *)
(***************************************************************************)
\* The promise fetchData returned, as the app holds it: r is what the call
\* step returned, `hit` whether it was answered from the cache.
PromiseOf(r) ==
    IF r.outcome = "resolved"
    THEN [call |-> r.id, hit |-> TRUE, state |-> "resolved", value |-> r.value]
    ELSE IF r.outcome = "rejected"
    THEN [call |-> r.id, hit |-> FALSE, state |-> "rejected", value |-> r.value]
    ELSE [call |-> r.id, hit |-> FALSE, state |-> "pending", value |-> Null]

\* app.js lines 112-127, the continuation of initialize() after `await
\* Promise.all([...])`: Promise.all rejects with the first rejection, which
\* takes initialize to its catch, and resolves when both promises have,
\* which takes it on to `this.currentData = posts`.
PathOf(posts, users) ==
    IF posts.state = "rejected" \/ users.state = "rejected" THEN "error"
    ELSE IF posts.state = "resolved" /\ users.state = "resolved" THEN "success"
    ELSE "waiting"

\* The app when the promise of call i settles: the loads waiting for it
\* take their path.
PromiseSettled(a, i, outcome, value) ==
    LET settle(pr) == IF pr.call = i /\ pr.state = "pending"
                      THEN [pr EXCEPT !.state = outcome, !.value = value]
                      ELSE pr
        after(l) == IF l.path # "waiting" THEN l
                    ELSE [posts |-> settle(l.posts), users |-> settle(l.users),
                          path |-> PathOf(settle(l.posts), settle(l.users))]
        loaded == {k \in 1..Len(a.loads) :
                      a.loads[k].path = "waiting" /\ after(a.loads[k]).path = "success"}
    IN  [currentData |-> IF loaded = {} THEN a.currentData
                         ELSE after(a.loads[CHOOSE k \in loaded : TRUE]).posts.value,
         loads |-> [k \in 1..Len(a.loads) |-> after(a.loads[k])]]

\* The promise of call i settles: c is the call as it ends.
Settle(i, c, outcome, value) ==
    /\ calls' = [calls EXCEPT ![i] = SettledCall]
    /\ app' = PromiseSettled(app, i, outcome, value)
    /\ ret' = [op |-> "settled", id |-> i, outcome |-> outcome, value |-> value,
               call |-> c]

\* app.js lines 112-116, initialize() up to `await Promise.all([...])` on
\* the manager m after the notifications sofar: fetchAllPosts() and then
\* fetchUsers() are called in the same turn, each running to its return
\* or to its first await.
InitializeOn(m, sofar) ==
    LET posts == FetchDataOn(m, "/posts", <<>>, TRUE)
        users == FetchDataOn(posts, "/users", <<>>, TRUE)
    IN  [cache |-> users.cache,
         requestCount |-> users.requestCount,
         abortController |-> users.abortController,
         calls |-> users.calls,
         emitted |-> sofar \o posts.emitted \o users.emitted,
         load |-> [posts |-> PromiseOf(posts.ret), users |-> PromiseOf(users.ret),
                   path |-> PathOf(PromiseOf(posts.ret), PromiseOf(users.ret))]]

\* The step of the app that starts the load `done`.
Load(op, done) ==
    /\ cache' = done.cache
    /\ requestCount' = done.requestCount
    /\ abortController' = done.abortController
    /\ calls' = done.calls
    /\ emitted' = done.emitted
    /\ app' = [currentData |-> IF done.load.path = "success"
                                THEN done.load.posts.value ELSE app.currentData,
                loads |-> Append(app.loads, done.load)]
    /\ ret' = [op |-> op, load |-> Len(app.loads) + 1]
    /\ UNCHANGED <<config, listeners>>
    /\ UNCHANGED debounceVars

\* initialize(): from the constructor, and from the retry button.
Initialize == Load("initialize", InitializeOn(Manager, <<>>))

\* refreshData(), app.js lines 263-272: clearCache(), then initialize().
RefreshData ==
    Load("refreshData",
         InitializeOn([Manager EXCEPT !.cache = CacheClear(@)],
                      NotifyListeners(<<>>, "cache-cleared", Null)))

\* No call is waiting for the microtask that rejects its aborted fetch() or
\* response.json().
NoRejectionDue ==
    \A i \in 1..Len(calls) : ~(calls[i].pc \in {"fetch", "json"} /\ calls[i].aborted)

\* The call i after the part of fetchWithRetry that ran in this step:
\* `done` is what BeginAttempt or CatchOn left of it.
Continue(i, done) ==
    IF done.settled
    THEN Settle(i, done.call, "rejected", done.value)
    ELSE /\ calls' = [calls EXCEPT ![i] = done.call]
         /\ ret' = NoRet
         /\ app' = app

\* The attempt of call i failed with `error`.
Catch(i, error) ==
    LET done == CatchOn(calls[i], error)
    IN  /\ Continue(i, done)
        /\ emitted' = done.emitted

\* fetch() resolved with a response: line 64 either throws or goes on to
\* response.json().
ResponseArrives(i, ok) ==
    /\ i \in 1..Len(calls)
    /\ NoRejectionDue
    /\ calls[i].pc = "fetch" /\ ~calls[i].aborted
    /\ IF ok
       THEN /\ calls' = [calls EXCEPT ![i].pc = "json"]
            /\ ret' = NoRet
            /\ emitted' = <<>>
            /\ app' = app
       ELSE Catch(i, "Error")
    /\ UNCHANGED <<config, cache, requestCount, abortController>>
    /\ UNCHANGED debounceVars
    /\ UNCHANGED listeners

\* fetch() rejected: a transport failure.
FetchFails(i) ==
    /\ i \in 1..Len(calls)
    /\ NoRejectionDue
    /\ calls[i].pc = "fetch" /\ ~calls[i].aborted
    /\ Catch(i, "TypeError")
    /\ UNCHANGED <<config, cache, requestCount, abortController>>
    /\ UNCHANGED debounceVars
    /\ UNCHANGED listeners

\* Mutant of StoreResult: the result is stored whatever useCache is.
StoreResultAlways(m, c, data) == SetCache(m.cache, m.emitted, c.key, data)

\* Lines 111-113: `if (useCache) this.setCache(cacheKey, data)` of call c,
\* with the cache and the notifications of the step so far in m.
StoreResult(m, c, data) ==
    IF c.useCache THEN SetCache(m.cache, m.emitted, c.key, data) ELSE m

\* response.json() resolved with data: lines 69-70, then 111-115, or the
\* catch block when a request-success listener throws; the exception of a
\* cache-updated listener leaves setCache and rejects fetchData.
JsonParsed(i, data) ==
    /\ i \in 1..Len(calls)
    /\ NoRejectionDue
    /\ calls[i].pc = "json" /\ ~calls[i].aborted
    /\ LET c == calls[i]
           success == NotifyListeners(<<>>, "request-success", Null)
           caught == CatchOn(Logged(c, success), ListenerError)
           done == StoreResult([cache |-> cache, emitted |-> success], c, data)
           stored == done.emitted # success
       IN  IF NotifyThrows(listeners, "request-success")
           THEN /\ cache' = cache
                /\ emitted' = success \o caught.emitted
                /\ Continue(i, caught)
           ELSE /\ cache' = done.cache
                /\ emitted' = done.emitted
                /\ IF stored /\ NotifyThrows(listeners, "cache-updated")
                   THEN Settle(i, Logged(c, done.emitted), "rejected", ListenerError)
                   ELSE Settle(i, Logged(c, done.emitted), "resolved", data)
    /\ UNCHANGED <<config, requestCount, abortController>>
    /\ UNCHANGED debounceVars
    /\ UNCHANGED listeners

\* response.json() rejected: the body is not JSON.
JsonFails(i) ==
    /\ i \in 1..Len(calls)
    /\ NoRejectionDue
    /\ calls[i].pc = "json" /\ ~calls[i].aborted
    /\ Catch(i, "SyntaxError")
    /\ UNCHANGED <<config, cache, requestCount, abortController>>
    /\ UNCHANGED debounceVars
    /\ UNCHANGED listeners

\* The signal is aborted: fetch() or response.json() rejects with AbortError.
Aborted(i) ==
    /\ i \in 1..Len(calls)
    /\ calls[i].pc \in {"fetch", "json"} /\ calls[i].aborted
    /\ Catch(i, AbortError)
    /\ UNCHANGED <<config, cache, requestCount, abortController>>
    /\ UNCHANGED debounceVars
    /\ UNCHANGED listeners

\* The backoff timer fired: line 79, fetchWithRetry(url, options, retries - 1).
RetryAfterDelay(i) ==
    /\ i \in 1..Len(calls)
    /\ NoRejectionDue
    /\ calls[i].pc = "delay" /\ calls[i].wait = 0
    /\ requestCount' = CountRequest(requestCount)
    /\ LET begun == BeginAttempt(calls[i], calls[i].retries - 1)
       IN  /\ Continue(i, begun)
           /\ emitted' = begun.emitted
    /\ UNCHANGED <<config, cache, abortController>>
    /\ UNCHANGED debounceVars
    /\ UNCHANGED listeners

\* One tick of the clock: every timestamp is one tick older, every timer
\* one tick nearer.
Tick ==
    /\ NoRejectionDue
    /\ cache' = [k \in DOMAIN cache |->
                    [cache[k] EXCEPT !.age = IF @ < config.cacheExpiry THEN @ + 1 ELSE @]]
    /\ calls' = [i \in 1..Len(calls) |->
                    IF calls[i].pc = "delay" /\ calls[i].wait > 0
                    THEN [calls[i] EXCEPT !.wait = @ - 1]
                    ELSE calls[i]]
    /\ timers' = [id \in DOMAIN timers |->
                     [timers[id] EXCEPT !.wait = IF @ > 0 THEN @ - 1 ELSE 0]]
    /\ ret' = NoRet
    /\ emitted' = <<>>
    /\ lastInv' = IF lastInv.id > 0 /\ lastInv.gap < wrappers[lastInv.w].delay
                   THEN [lastInv EXCEPT !.gap = @ + 1]
                   ELSE lastInv
    /\ UNCHANGED <<config, requestCount, abortController, debounceTimer, wrappers>>
    /\ UNCHANGED <<listeners, app>>

(***************************************************************************)
(* debounceSearch.  A wrapper is the closure debounceSearch returns; its   *)
(* callback is named by the wrapper's index.  Invocations are numbered,    *)
(* and the timer an invocation sets has the invocation's number as id.     *)
(* lastInv describes the latest invocation: its number, wrapper and        *)
(* arguments, the ticks since it was made (gap, counted up to the          *)
(* wrapper's delay), how often its callback has run, and the length of the *)
(* burst it ends: the invocations before it that each came less than the   *)
(* delay of the one before, and itself; prev is the wrapper of the         *)
(* invocation before it.                                                   *)
(***************************************************************************)
Args == {"a", "b"}

NoInv == [id |-> 0, w |-> 0, args |-> "", gap |-> 0, runs |-> 0, burst |-> 0,
          prev |-> 0]

\* The delays wrappers are created with: the default and a shorter one.
Delays == {config.debounceDelay, 1}

\* Mutant of ClearTimeout: the timer is not cleared.
ClearTimeoutOff(ts, id) == ts

\* clearTimeout(id)
ClearTimeout(ts, id) == [t \in DOMAIN ts \ {id} |-> ts[t]]

\* setTimeout(() => callback.apply(this, args), delay), the timer getting
\* the id `id`
SetTimeout(ts, id, w, args, delay) ==
    (id :> [w |-> w, args |-> args, wait |-> delay]) @@ ts

DebounceSearch(delay) ==
    /\ Len(wrappers) < MaxWrappers
    /\ wrappers' = Append(wrappers, [delay |-> delay])
    /\ ret' = [op |-> "debounceSearch", wrapper |-> Len(wrappers) + 1]
    /\ emitted' = <<>>
    /\ UNCHANGED <<config, debounceTimer, timers, lastInv>>
    /\ UNCHANGED fetchVars
    /\ UNCHANGED <<listeners, app>>

\* Lines 187-190: the wrapper w is invoked with args.
Invoke(w, args) ==
    LET id == lastInv.id + 1
        early == lastInv.id > 0 /\ lastInv.gap < wrappers[lastInv.w].delay
    IN  /\ w \in 1..Len(wrappers)
        /\ lastInv.id < MaxInvokes
        /\ timers' = SetTimeout(ClearTimeout(timers, debounceTimer), id, w, args,
                                wrappers[w].delay)
        /\ debounceTimer' = id
        /\ lastInv' = [id |-> id, w |-> w, args |-> args, gap |-> 0, runs |-> 0,
                       burst |-> IF early THEN lastInv.burst + 1 ELSE 1,
                       prev |-> lastInv.w]
        /\ ret' = [op |-> "invoke", wrapper |-> w]
        /\ emitted' = <<>>
        /\ UNCHANGED <<config, wrappers>>
        /\ UNCHANGED fetchVars
        /\ UNCHANGED <<listeners, app>>

\* A timer that is due fires: callback.apply(this, args), with the callback
\* and the arguments of the invocation that set the timer.
TimerFires(id) ==
    /\ NoRejectionDue
    /\ id \in DOMAIN timers
    /\ timers[id].wait = 0
    /\ timers' = [t \in DOMAIN timers \ {id} |-> timers[t]]
    /\ lastInv' = IF id = lastInv.id THEN [lastInv EXCEPT !.runs = @ + 1] ELSE lastInv
    /\ ret' = [op |-> "callback", inv |-> id, wrapper |-> timers[id].w,
               args |-> timers[id].args]
    /\ emitted' = <<>>
    /\ UNCHANGED <<config, debounceTimer, wrappers>>
    /\ UNCHANGED fetchVars
    /\ UNCHANGED <<listeners, app>>

(***************************************************************************)
(* The manager after construction.  config.maxRetries is set before use to *)
(* a value in 0..MaxRetries; the delays are the model's tick counts.       *)
(***************************************************************************)
Init ==
    /\ config \in [maxRetries : 0..MaxRetries, retryDelay : {RetryDelay},
                   cacheExpiry : {CacheExpiry}, debounceDelay : {DebounceDelay}]
    /\ cache = <<>>
    /\ requestCount = 0
    /\ abortController = 0
    /\ debounceTimer = 0
    /\ timers = <<>>
    /\ wrappers = <<>>
    /\ calls = <<>>
    /\ lastInv = NoInv
    /\ listeners = <<>>
    /\ app = [currentData |-> "[]", loads |-> <<>>]
    /\ emitted = <<>>
    /\ ret = NoRet

\* The network and the timers answering the calls 1..n.
Network(n) ==
    \/ \E i \in 1..n, ok \in BOOLEAN : ResponseArrives(i, ok)
    \/ \E i \in 1..n : FetchFails(i)
    \/ \E i \in 1..n, data \in JsonValues : JsonParsed(i, data)
    \/ \E i \in 1..n : JsonFails(i)
    \/ \E i \in 1..n : Aborted(i)
    \/ \E i \in 1..n : RetryAfterDelay(i)

Next ==
    \/ \E r \in Requests, useCache \in BOOLEAN :
            Len(calls) < MaxCalls /\ FetchData(r.endpoint, r.params, useCache)
    \/ Network(MaxCalls)
    \/ \E key \in CacheKeys : GetCache(key)
    \/ ClearCache
    \/ Tick

Spec == Init /\ [][Next]_vars

\* fetchUsers() and fetchPosts(1, 10), which call fetchData with useCache
\* left at its default, called one while the other may be pending, and
\* nothing else.
NextFetch ==
    \/ \E r \in Requests :
            /\ Len(calls) < MaxCalls
            /\ r.params \in {<<>>, StartLimit}
            /\ FetchData(r.endpoint, r.params, TRUE)
    \/ Network(MaxCalls)
    \/ Tick

SpecFetch == Init /\ [][NextFetch]_vars

\* Every network call settles (fetch() and response.json() resolve or
\* reject), every rejection that is due is delivered, every backoff timer
\* that is due fires, and the clock goes on.
FairFetch ==
    /\ SpecFetch
    /\ WF_vars(Tick)
    /\ \A i \in 1..MaxCalls :
          /\ WF_vars((\E ok \in BOOLEAN : ResponseArrives(i, ok)) \/ FetchFails(i))
          /\ WF_vars((\E data \in JsonValues : JsonParsed(i, data)) \/ JsonFails(i))
          /\ WF_vars(Aborted(i))
          /\ WF_vars(RetryAfterDelay(i))

\* The app: loads started by initialize() and refreshData(), and the
\* network answering their calls.
NextApp ==
    \/ Len(app.loads) < MaxLoads /\ Initialize
    \/ Len(app.loads) < MaxLoads /\ RefreshData
    \/ Network(2 * MaxLoads)
    \/ Tick

SpecApp == Init /\ [][NextApp]_vars

\* The publish/subscribe part alone: callbacks are registered, removed and
\* notified.  In the other specifications no listener is registered.
Listening ==
    LET events == DOMAIN listeners
        sizes[es \in SUBSET events] ==
            IF es = {} THEN 0
            ELSE LET e == CHOOSE x \in es : TRUE
                 IN  Len(listeners[e]) + sizes[es \ {e}]
    IN  sizes[events]

NextListeners ==
    \/ \E event \in ListenEvents, callback \in Callbacks :
            Listening < MaxListeners /\ On(event, callback)
    \/ \E event \in ListenEvents, callback \in Callbacks : Off(event, callback)
    \/ \E event \in ListenEvents, data \in Payloads : Notify(event, data)

SpecListeners == Init /\ [][NextListeners]_vars

\* fetchUsers() called, and cancelled while pending, while listeners of the
\* events of an attempt are being registered; some of them throw.
AttemptEvents == {"request-started", "request-success", "request-error"}
Watchers == {"cb1", "cbThrows"}

NextNotify ==
    \/ \E event \in AttemptEvents, callback \in Watchers :
            Listening < MaxWatchers /\ On(event, callback)
    \/ Len(calls) < MaxWatched /\ FetchData("/users", <<>>, TRUE)
    \/ (\E i \in 1..Len(calls) : Pending(calls[i])) /\ CancelPendingRequestsCall
    \/ Network(MaxWatched)
    \/ Tick

SpecNotify == Init /\ [][NextNotify]_vars

\* fetchUsers() called again and again, with or without the cache: every
\* call has the same key.
NextSameKey ==
    \/ \E useCache \in BOOLEAN :
            Len(calls) < MaxRepeats /\ FetchData("/users", <<>>, useCache)
    \/ Network(MaxRepeats)
    \/ Tick

SpecSameKey == Init /\ [][NextSameKey]_vars

\* The debounce wrappers alone.
NextDebounce ==
    \/ \E delay \in Delays : DebounceSearch(delay)
    \/ \E w \in 1..MaxWrappers, args \in Args : Invoke(w, args)
    \/ \E id \in 1..MaxInvokes : TimerFires(id)
    \/ Tick

SpecDebounce == Init /\ [][NextDebounce]_vars

\* The event loop runs every timer that is due, and the clock goes on.
FairDebounce ==
    /\ SpecDebounce
    /\ WF_vars(Tick)
    /\ \A id \in 1..MaxInvokes : WF_vars(TimerFires(id))

\* generateCacheKey alone, over all the parameter objects.
NextKeys == \E endpoint \in Endpoints, params \in ParamMaps :
                GenerateCacheKeyCall(endpoint, params)

SpecKeys == Init /\ [][NextKeys]_vars

(***************************************************************************)
(* Properties.                                                             *)
(***************************************************************************)
EventsOf(es) == [i \in 1..Len(es) |-> es[i].event]

\* A step in which fetchData was called.
FetchDataStep == Len(calls') = Len(calls) + 1

\* The parsed JSON value is an object or an array.
IsObjectOrArray(v) == v \in {"[1]", "{}"}

\* Two parameter maps with the same name/value pairs.
SameParams(p, q) == {p[i] : i \in 1..Len(p)} = {q[i] : i \in 1..Len(q)}

\* C1: a fetchData call that misses the cache cancels every call still
\* pending; a cancelled call ends rejected with AbortError, and the step in
\* which it ends writes nothing to the cache and notifies nobody (so no
\* request-error); until then it stays cancelled.
C1_Step ==
    /\ (FetchDataStep /\ Pending(calls'[Len(calls')]))
          => \A i \in 1..Len(calls) : Pending(calls[i]) => calls'[i].aborted
    /\ \A i \in 1..Len(calls) :
          (Pending(calls[i]) /\ calls[i].aborted) =>
              IF Pending(calls'[i])
              THEN calls'[i].aborted
              ELSE /\ ret'.op = "settled" /\ ret'.id = i
                   /\ ret'.outcome = "rejected" /\ ret'.value = AbortError
                   /\ cache' = cache
                   /\ emitted' = <<>>

C1_SupersededCallIsCancelled == [][C1_Step]_vars

\* A call for one key has just ended with AbortError while the later call
\* for another key that cancelled it is pending.
C1_Witness ==
    /\ ret.op = "settled" /\ ret.value = AbortError
    /\ \E j \in 1..Len(calls) :
          j > ret.id /\ Pending(calls[j]) /\ calls[j].key # ret.call.key

\* C2: a call that ends with a failure other than cancellation has made
\* exactly maxRetries + 1 attempts and maxRetries backoff waits; when it is
\* the only call made, requestCount is maxRetries + 1.
C2_FailedCallUsedAllAttempts ==
    (ret.op = "settled" /\ ret.outcome = "rejected" /\ ret.value \in NetworkErrors)
        => /\ ret.call.attempts = config.maxRetries + 1
           /\ ret.call.waits = config.maxRetries
           /\ Count(ret.call.log, "request-started") = config.maxRetries + 1
           /\ requestCount >= config.maxRetries + 1
           /\ Len(calls) = 1 => requestCount = config.maxRetries + 1

\* With maxRetries = 2 a call has just failed after 3 attempts.
C2_Witness ==
    /\ config.maxRetries = 2
    /\ ret.op = "settled" /\ ret.outcome = "rejected" /\ ret.value = "SyntaxError"
    /\ ret.call.attempts = 3 /\ requestCount = 3

\* C3: fetchData(endpoint, params) with useCache = true, called while the
\* cache holds an unexpired object or array under the key of a request with
\* the same endpoint and the same parameters in any order, returns that
\* value, notifies cache-hit and nothing else, and leaves requestCount alone.
C3_Step ==
    (FetchDataStep /\ ret'.useCache) =>
        \A r \in Requests :
            LET key == GenerateCacheKey(r.endpoint, r.params) IN
            ( /\ r.endpoint = ret'.endpoint /\ SameParams(r.params, ret'.params)
              /\ key \in DOMAIN cache
              /\ cache[key].age < config.cacheExpiry
              /\ IsObjectOrArray(cache[key].data) )
            => /\ ret'.outcome = "resolved"
               /\ ret'.value = cache[key].data
               /\ EventsOf(emitted') = <<"cache-hit">>
               /\ requestCount' = requestCount
               /\ abortController' = abortController

C3_CachedFetchIsHit == [][C3_Step]_vars

\* fetchPosts' request, with _limit given before _start, has just been
\* answered from the cache after an earlier network attempt.
C3_Witness ==
    /\ ret.op = "fetchData" /\ ret.outcome = "resolved" /\ ret.params = LimitStart
    /\ ret.value = "[1]" /\ requestCount = 1
    /\ GenerateCacheKey(ret.endpoint, StartLimit) \in DOMAIN cache

\* C4: getCache(key) on an entry at least cacheExpiry old returns null and
\* removes just that entry; on an absent key it returns null and leaves the
\* cache as it is; data is returned, by getCache and by fetchData's cache
\* hit, only of an entry younger than cacheExpiry.
C4_Step ==
    /\ ret'.op = "getCache" =>
          LET key == ret'.key IN
          /\ key \notin DOMAIN cache => (ret'.val = Null /\ cache' = cache)
          /\ (key \in DOMAIN cache /\ cache[key].age >= config.cacheExpiry)
                => /\ ret'.val = Null
                   /\ DOMAIN cache' = DOMAIN cache \ {key}
                   /\ \A k \in DOMAIN cache' : cache'[k] = cache[k]
          /\ ret'.val # Null
                => /\ key \in DOMAIN cache
                   /\ cache[key].age < config.cacheExpiry
                   /\ ret'.val = cache[key].data
    /\ (FetchDataStep /\ ret'.outcome = "resolved")
          => \E k \in DOMAIN cache :
                /\ cache[k].age < config.cacheExpiry
                /\ ret'.value = cache[k].data
    /\ (FetchDataStep /\ ret'.useCache)
          => \A r \in Requests :
                LET key == GenerateCacheKey(r.endpoint, r.params) IN
                ( /\ r.endpoint = ret'.endpoint /\ r.params = ret'.params
                  /\ key \in DOMAIN cache
                  /\ cache[key].age >= config.cacheExpiry )
                => (ret'.outcome = "pending" /\ key \notin DOMAIN cache')

C4_StaleEntryIsMissAndEvicted == [][C4_Step]_vars

\* getCache has just answered null for an entry that was cacheExpiry old,
\* and the entry is gone.
C4_Witness ==
    /\ ret.op = "getCache" /\ ret.had /\ ret.age >= config.cacheExpiry
    /\ ret.val = Null /\ ret.key \notin DOMAIN cache

\* C5: at most one pending call has a signal that is not aborted.
C5_OneLiveRequest ==
    Cardinality({i \in 1..Len(calls) : Pending(calls[i]) /\ ~calls[i].aborted}) <= 1

\* Two calls are pending, the older one aborted and waiting in its backoff.
C5_Witness ==
    /\ Len(calls) = 2
    /\ calls[1].pc = "delay" /\ calls[1].aborted
    /\ Pending(calls[2]) /\ ~calls[2].aborted

\* C6: once a pending call's signal is aborted, no further attempt is
\* started for it.
C6_Step ==
    \A i \in 1..Len(calls) :
        (Pending(calls[i]) /\ calls[i].aborted /\ Pending(calls'[i]))
            => /\ calls'[i].attempts = calls[i].attempts
               /\ calls'[i].log = calls[i].log

C6_NoAttemptAfterAbort == [][C6_Step]_vars

\* The attempts call i has made, as far as the manager still holds the call.
AttemptsOf(cs, i) == IF i <= Len(cs) /\ Pending(cs[i]) THEN cs[i].attempts ELSE 0

\* The step started an attempt for call i.
AttemptStarted(i) == AttemptsOf(calls', i) > AttemptsOf(calls, i)

\* C7: requestCount starts at 0; a step adds 1 to it when it starts an
\* attempt, which it does for one call at most and with one request-started
\* notification, and otherwise leaves it as it is; getCache, clearCache and
\* a cache hit leave it as it is, and getStats reports the counter.
C7_Step ==
    /\ requestCount' \in {requestCount, requestCount + 1}
    /\ requestCount' = requestCount + 1
          <=> \E i \in 1..Len(calls') : AttemptStarted(i)
    /\ \A i, j \in 1..Len(calls') :
          (AttemptStarted(i) /\ AttemptStarted(j))
              => (i = j /\ AttemptsOf(calls', i) = AttemptsOf(calls, i) + 1)
    /\ Count(EventsOf(emitted'), "request-started") = requestCount' - requestCount
    /\ ret'.op \in {"getCache", "clearCache"} => requestCount' = requestCount
    /\ (FetchDataStep /\ ret'.outcome = "resolved") => requestCount' = requestCount
    /\ GetStats'.requestCount = requestCount'

C7_RequestCountIsAttempts == (requestCount = 0) /\ [][C7_Step]_vars

\* After two attempts a call was answered from the cache, and the counter
\* still reads 2.
C7_Witness ==
    /\ ret.op = "fetchData" /\ ret.outcome = "resolved"
    /\ requestCount = 2 /\ GetStats.requestCount = 2

\* C8: request-error is notified only in the step in which a call ends
\* with a failure other than cancellation, once, with that failure as its
\* payload and no retry left; a pending call has had neither request-error
\* nor request-success; a call never has both; a cancelled call has none.
C8_RequestErrorOnceAtTheEnd ==
    /\ \A i \in 1..Len(calls) :
          Pending(calls[i]) =>
              /\ Count(calls[i].log, "request-error") = 0
              /\ Count(calls[i].log, "request-success") = 0
    /\ Count(EventsOf(emitted), "request-error") > 0
          => /\ ret.op = "settled" /\ ret.outcome = "rejected"
             /\ ret.value \in NetworkErrors
    /\ ret.op = "settled" =>
          LET errors == Count(ret.call.log, "request-error")
              successes == Count(ret.call.log, "request-success")
          IN  /\ errors + successes <= 1
              /\ (ret.outcome = "rejected" /\ ret.value # AbortError) <=> errors = 1
              /\ ret.outcome = "resolved" <=> successes = 1
              /\ errors = 1 =>
                    /\ emitted = <<[event |-> "request-error", data |-> ret.value]>>
                    /\ ret.call.retries = 0
                    /\ ret.call.attempts = config.maxRetries + 1
              /\ ret.value = AbortError => emitted = <<>>

\* A call has just failed on its third attempt, with request-error for the
\* HTTP failure of that attempt.
C8_Witness ==
    /\ ret.op = "settled" /\ ret.value = "Error" /\ ret.call.attempts = 3
    /\ emitted = <<[event |-> "request-error", data |-> "Error"]>>

\* C9: fetchData with useCache = true, called while the cache holds an
\* unexpired entry for its key, returns the entry's value whatever it is,
\* notifies cache-hit and starts no attempt.
C9_Step ==
    (FetchDataStep /\ ret'.useCache) =>
        LET key == GenerateCacheKey(ret'.endpoint, ret'.params) IN
        (key \in DOMAIN cache /\ cache[key].age < config.cacheExpiry)
            => /\ ret'.outcome = "resolved"
               /\ ret'.value = cache[key].data
               /\ EventsOf(emitted') = <<"cache-hit">>
               /\ requestCount' = requestCount

C9_AnyCachedValueIsHit == [][C9_Step]_vars

\* C10: a callback runs only for the latest invocation, with that
\* invocation's wrapper and arguments, when the wrapper's delay has passed
\* since it, and at most once; so of a burst of invocations, each less than
\* the delay after the one before, none but the last has its callback run.
\* The latest invocation has its timer pending or has had its callback run,
\* and no other timer is pending.
C10_Inv ==
    /\ lastInv.runs <= 1
    /\ lastInv.runs = 1 => lastInv.gap = wrappers[lastInv.w].delay
    /\ lastInv.id > 0 => (lastInv.runs = 1) # (lastInv.id \in DOMAIN timers)
    /\ DOMAIN timers \subseteq {lastInv.id}
    /\ ret.op = "callback" =>
          /\ ret.inv = lastInv.id
          /\ ret.wrapper = lastInv.w
          /\ ret.args = lastInv.args
          /\ lastInv.runs = 1

\* ... and a pending timer does not stay pending for ever.
C10_DebounceRunsLastOnce ==
    /\ []C10_Inv
    /\ \A id \in 1..MaxInvokes : (id \in DOMAIN timers) ~> (id \notin DOMAIN timers)

\* One wrapper was invoked three times, each time within its delay of the
\* time before and the last time with "b"; its callback has just run, once,
\* with "b".
C10_Witness ==
    /\ lastInv.id = 3 /\ lastInv.burst = 3
    /\ lastInv.args = "b" /\ lastInv.runs = 1
    /\ Len(wrappers) = 1
    /\ ret.op = "callback" /\ ret.args = "b"

\* C11: the key generateCacheKey gives for an endpoint and a parameter
\* object is the key it gives for the endpoint and any parameter object
\* with the same name/value pairs, whatever their insertion order; for the
\* empty parameter object the key is the endpoint.
C11_KeyIgnoresInsertionOrder ==
    ret.op = "generateCacheKey" =>
        /\ \A q \in ParamMaps :
              SameParams(q, ret.params) => GenerateCacheKey(ret.endpoint, q) = ret.key
        /\ ret.params = <<>> => ret.key = ret.endpoint

\* The key of /posts with userId, _start and _limit given in that order:
\* the names come out sorted.
C11_Witness ==
    /\ ret.op = "generateCacheKey" /\ ret.endpoint = "/posts"
    /\ ObjectKeys(ret.params) = <<"userId", "_start", "_limit">>
    /\ ParamValue(ret.params, "_limit") = 10
    /\ ParamValue(ret.params, "_start") = 0
    /\ ParamValue(ret.params, "userId") = 10
    /\ ret.key = "/posts?_limit=10&_start=0&userId=10"

\* C12: the step clearCache() takes leaves the cache empty, so that
\* getStats reports cacheSize 0 and no cached keys, notifies cache-cleared
\* once and nothing else, and leaves requestCount, the current controller
\* and every call, pending or not, as they were.
C12_Step ==
    ret'.op = "clearCache" =>
        /\ cache' = <<>>
        /\ GetStats'.cacheSize = 0
        /\ GetStats'.cachedItems = {}
        /\ EventsOf(emitted') = <<"cache-cleared">>
        /\ requestCount' = requestCount
        /\ GetStats'.requestCount = requestCount
        /\ abortController' = abortController
        /\ calls' = calls

C12_ClearCacheEmptiesOnlyTheCache == [][C12_Step]_vars

\* clearCache has just emptied a cache that held an entry, while a request
\* is in flight, its signal not aborted.
C12_Witness ==
    /\ ret.op = "clearCache" /\ ret.had > 0
    /\ GetStats.cacheSize = 0
    /\ abortController # 0
    /\ Pending(calls[abortController]) /\ ~calls[abortController].aborted

\* C13: fetchData with useCache = false starts an attempt whatever the
\* cache holds, and notifies request-started only; the step that calls it
\* and every step that takes the call on (an answer, a failure, a retry,
\* its end) leave the cache map as it is, stale entries included, and
\* notify neither cache-hit nor cache-updated.
C13_Step ==
    /\ (FetchDataStep /\ ~ret'.useCache)
          => /\ ret'.outcome = "pending"
             /\ requestCount' = requestCount + 1
             /\ EventsOf(emitted') = <<"request-started">>
             /\ cache' = cache
    /\ \A i \in 1..Len(calls) :
          (Pending(calls[i]) /\ ~calls[i].useCache /\ calls'[i].pc # calls[i].pc)
              => /\ cache' = cache
                 /\ Count(EventsOf(emitted'), "cache-hit") = 0
                 /\ Count(EventsOf(emitted'), "cache-updated") = 0
    /\ (ret'.op = "settled" /\ ~ret'.call.useCache)
          => /\ Count(ret'.call.log, "cache-hit") = 0
             /\ Count(ret'.call.log, "cache-updated") = 0

C13_NoCacheCallLeavesCacheAlone == [][C13_Step]_vars

\* A call with useCache = false has just resolved with data other than
\* the entry the cache holds, and goes on holding, for its key.
C13_Witness ==
    /\ ret.op = "settled" /\ ret.outcome = "resolved" /\ ~ret.call.useCache
    /\ ret.call.key \in DOMAIN cache
    /\ cache[ret.call.key].data # ret.value

\* A step that takes the pending call i on without resolving it: to its
\* next await, or to its rejection.
FailingStep(i) ==
    /\ Pending(calls[i])
    /\ calls'[i].pc # calls[i].pc
    /\ ~(ret'.op = "settled" /\ ret'.outcome = "resolved")

\* C14, as claimed: no step of a call on its way to failure or cancellation
\* changes the cache, and a fetchData for the key of a call that has just
\* ended rejected misses the cache and starts with maxRetries retries left.
C14_ClaimStep ==
    /\ \A i \in 1..Len(calls) : FailingStep(i) => cache' = cache
    /\ ( /\ ret.op = "settled" /\ ret.outcome = "rejected"
         /\ FetchDataStep
         /\ GenerateCacheKey(ret'.endpoint, ret'.params) = ret.call.key )
          => /\ ret'.outcome = "pending"
             /\ calls'[Len(calls')].retries = config.maxRetries

C14_LaterFetchAlwaysMisses == [][C14_ClaimStep]_vars

\* C14, amended.  No step of a call on its way to failure or cancellation
\* changes the cache; the step that calls fetchData removes at most the
\* stale entry of its own key.  Whatever calls failed or were cancelled
\* before, fetchData is answered from the cache only with useCache = true
\* and the data of an unexpired entry, and otherwise starts its first
\* attempt with maxRetries retries left ...
C14_Step ==
    /\ \A i \in 1..Len(calls) : FailingStep(i) => cache' = cache
    /\ FetchDataStep =>
          LET key == GenerateCacheKey(ret'.endpoint, ret'.params)
              new == calls'[Len(calls')]
          IN  /\ cache' \in {cache, [k \in DOMAIN cache \ {key} |-> cache[k]]}
              /\ cache' # cache => cache[key].age >= config.cacheExpiry
              /\ IF ret'.outcome = "resolved"
                 THEN /\ ret'.useCache
                      /\ key \in DOMAIN cache
                      /\ cache[key].age < config.cacheExpiry
                      /\ ret'.value = cache[key].data
                 ELSE /\ new.pc = "fetch" /\ ~new.aborted
                      /\ new.attempts = 1
                      /\ new.retries = config.maxRetries

\* ... and every call has its own budget: the attempts it has made and the
\* retries it has left add up to maxRetries + 1, and it ends with a failure
\* other than cancellation after maxRetries + 1 attempts.
C14_Budget ==
    /\ \A i \in 1..Len(calls) :
          Pending(calls[i]) =>
              calls[i].attempts + calls[i].retries = config.maxRetries + 1
    /\ (ret.op = "settled" /\ ret.outcome = "rejected" /\ ret.value \in NetworkErrors)
          => ret.call.attempts = config.maxRetries + 1

C14_FailedCallLeavesManagerUsable == []C14_Budget /\ [][C14_Step]_vars

\* A call has just ended cancelled on its last permitted attempt, leaving
\* the cache empty, and the later call for its key, which cancelled it, is
\* at its first attempt with all maxRetries retries left.
C14_Witness ==
    /\ config.maxRetries = 2
    /\ ret.op = "settled" /\ ret.value = AbortError /\ ret.id = 1
    /\ ret.call.attempts = 3 /\ ret.call.useCache
    /\ cache = <<>>
    /\ Len(calls) = 2 /\ calls[2].pc = "fetch"
    /\ calls[2].key = ret.call.key
    /\ calls[2].attempts = 1 /\ calls[2].retries = 2

\* C15: a call never has more than maxRetries + 1 attempts to its name,
\* while it is pending and when it ends, whatever other calls do ...
C15_AttemptsBounded ==
    /\ \A i \in 1..Len(calls) :
          Pending(calls[i]) =>
              /\ calls[i].attempts >= 1
              /\ calls[i].attempts <= config.maxRetries + 1
    /\ ret.op = "settled" => ret.call.attempts <= config.maxRetries + 1

\* ... and every pending call is settled in the end, resolved or rejected.
C15_EveryCallSettles ==
    /\ []C15_AttemptsBounded
    /\ \A i \in 1..MaxCalls :
          (i <= Len(calls) /\ Pending(calls[i]))
              ~> (i <= Len(calls) /\ calls[i] = SettledCall)

\* A call that went through every attempt it was allowed has just been
\* rejected, while a later call awaits its answer.
C15_Witness ==
    /\ config.maxRetries = 2
    /\ ret.op = "settled" /\ ret.id = 1 /\ ret.outcome = "rejected"
    /\ ret.call.attempts = 3 /\ ret.call.waits = 2
    /\ Len(calls) = 2 /\ Pending(calls[2])

\* The events of one call, in order: request-success and request-error
\* come right after the request-started of their attempt, cache-updated
\* right after request-success and only with useCache, cache-hit never.
LogInOrder(log, useCache) ==
    \A k \in 1..Len(log) :
        /\ log[k] \in {"request-success", "request-error"}
              => (k > 1 /\ log[k - 1] = "request-started")
        /\ log[k] = "cache-updated"
              => (k > 1 /\ log[k - 1] = "request-success" /\ useCache)
        /\ log[k] # "cache-hit"

\* C16: the events of every call that went to the network are in that
\* order, while it is pending and when it ends; when cache-updated is
\* notified, getCache already returns the call's data for its key, and the
\* cache holds it; a call answered from the cache notified cache-hit and
\* nothing else.
C16_EventsInOrder ==
    /\ \A i \in 1..Len(calls) :
          Pending(calls[i]) => LogInOrder(calls[i].log, calls[i].useCache)
    /\ ret.op = "settled" => LogInOrder(ret.call.log, ret.call.useCache)
    /\ \A k \in 1..Len(emitted) :
          emitted[k].event = "cache-updated"
              => /\ ret.op = "settled" /\ ret.outcome = "resolved"
                 /\ ret.call.useCache
                 /\ k > 1 /\ emitted[k - 1].event = "request-success"
                 /\ emitted[k].cached = ret.value
                 /\ ret.call.key \in DOMAIN cache
                 /\ cache[ret.call.key] = [data |-> ret.value, age |-> 0]
    /\ (ret.op = "fetchData" /\ ret.outcome = "resolved")
          => /\ ret.log = <<"cache-hit">>
             /\ EventsOf(emitted) = <<"cache-hit">>

\* A call has just succeeded on its second attempt and stored its result.
C16_Witness ==
    /\ ret.op = "settled" /\ ret.outcome = "resolved"
    /\ ret.call.log = <<"request-started", "request-started",
                        "request-success", "cache-updated">>
    /\ EventsOf(emitted) = <<"request-success", "cache-updated">>
    /\ emitted[2].cached = ret.value

\* C17: at most one timer is pending, and it is the one this.debounceTimer
\* names, however many wrappers there are ...
C17_Inv ==
    /\ Cardinality(DOMAIN timers) <= 1
    /\ DOMAIN timers \subseteq {debounceTimer}

\* ... because the invocation of any wrapper leaves its own timer as the
\* only one, whichever wrapper set the timer pending before; and the
\* callback that runs is that of the latest invocation of any wrapper, so
\* none runs for an invocation that another one followed.
C17_Step ==
    /\ ret'.op = "invoke"
          => /\ DOMAIN timers' = {debounceTimer'}
             /\ timers'[debounceTimer'].w = ret'.wrapper
             /\ debounceTimer' \notin DOMAIN timers
    /\ ret'.op = "callback"
          => /\ ret'.inv = lastInv.id
             /\ ret'.wrapper = lastInv.w
             /\ timers' = <<>>

C17_OneTimerPerManager == []C17_Inv /\ [][C17_Step]_vars

\* Wrapper 2 was invoked less than wrapper 1's delay after wrapper 1, when
\* the timer of wrapper 1 was pending; the callback of wrapper 2 has run
\* and no timer is left to run that of wrapper 1.
C17_Witness ==
    /\ Len(wrappers) = 2
    /\ lastInv.id = 2 /\ lastInv.burst = 2
    /\ lastInv.prev = 1 /\ lastInv.w = 2
    /\ ret.op = "callback" /\ ret.wrapper = 2
    /\ timers = <<>>

\* The cache holds no unexpired entry for the key.
Cold(key) == ~(key \in DOMAIN cache /\ cache[key].age < config.cacheExpiry)

\* The cache holds an unexpired object or array for the key.
Warm(key) ==
    /\ key \in DOMAIN cache
    /\ cache[key].age < config.cacheExpiry
    /\ IsObjectOrArray(cache[key].data)

\* C19, the step: initialize() with no unexpired entry for /posts and
\* /users, and refreshData() with any cache, leave the /posts call aborted
\* by the /users call, with requestCount two higher; initialize() with
\* /users validly cached and /posts not leaves the /posts call alone in
\* flight, the /users promise resolved from the cache.
C19_Step ==
    /\ ( \/ ret'.op = "initialize" /\ Cold("/posts") /\ Cold("/users")
         \/ ret'.op = "refreshData" )
          => LET l == app'.loads[ret'.load] IN
             /\ ~l.posts.hit /\ ~l.users.hit /\ l.path = "waiting"
             /\ calls'[l.posts.call].pc = "fetch" /\ calls'[l.posts.call].aborted
             /\ calls'[l.users.call].pc = "fetch" /\ ~calls'[l.users.call].aborted
             /\ abortController' = l.users.call
             /\ requestCount' = requestCount + 2
    /\ ret'.op = "refreshData" => cache' = <<>>
    /\ (ret'.op = "initialize" /\ Cold("/posts") /\ Warm("/users"))
          => LET l == app'.loads[ret'.load] IN
             /\ ~l.posts.hit /\ l.users.hit /\ l.path = "waiting"
             /\ l.users.state = "resolved" /\ l.users.value = cache["/users"].data
             /\ calls'[l.posts.call].pc = "fetch" /\ ~calls'[l.posts.call].aborted
             /\ requestCount' = requestCount + 1

\* C19, the outcome.  A load whose two calls both went to the network
\* never has its /posts promise resolved and never takes the success path:
\* it is on the error path as soon as the rejection of /posts is
\* delivered, before the network answers anything.  When its /users call
\* is answered successfully, nothing but /users is cached by it; after the
\* first load on a new manager, answered at the first attempt, that is
\* the whole cache, and requestCount is 2.  A load whose /users promise
\* came from the cache takes the success path when its /posts call
\* succeeds, with the posts as currentData.
C19_Inv ==
    /\ \A k \in 1..Len(app.loads) :
          LET l == app.loads[k] IN
          /\ (~l.posts.hit /\ ~l.users.hit)
                => /\ l.posts.state # "resolved"
                   /\ l.path # "success"
                   /\ NoRejectionDue => l.path = "error"
          /\ (l.users.hit /\ l.posts.state = "resolved") => l.path = "success"
          /\ ( /\ ret.op = "settled" /\ ret.outcome = "resolved"
               /\ ret.id = l.posts.call /\ l.users.hit /\ ~l.posts.hit )
                => /\ l.path = "success"
                   /\ app.currentData = ret.value
    /\ Len(app.loads) = 1
          => /\ "/posts" \notin DOMAIN cache
             /\ app.currentData = "[]"
             /\ (ret.op = "settled" /\ ret.outcome = "resolved")
                   => /\ ret.id = app.loads[1].users.call
                      /\ app.loads[1].path = "error"
                      /\ DOMAIN cache = {"/users"}
                      /\ ret.call.attempts = 1 => requestCount = 2

C19_InitializeCancelsItsPosts == []C19_Inv /\ [][C19_Step]_vars

\* The first load found the cache cold and took the error path, leaving
\* /users cached; the second, started while /users was validly cached, has
\* just taken the success path on the answer to its /posts call, the third
\* request of the manager.
C19_Witness ==
    /\ Len(app.loads) = 2
    /\ app.loads[1].path = "error" /\ ~app.loads[1].users.hit
    /\ app.loads[2].path = "success" /\ app.loads[2].users.hit
    /\ ret.op = "settled" /\ ret.id = app.loads[2].posts.call
    /\ app.currentData = ret.value
    /\ requestCount = 3

\* The sequence s without the callback cb, the rest in order.
RECURSIVE Without(_, _)
Without(s, cb) ==
    IF s = <<>> THEN <<>>
    ELSE IF Head(s) = cb THEN Without(Tail(s), cb)
    ELSE <<Head(s)>> \o Without(Tail(s), cb)

\* C18: on(event, cb) puts cb last among the callbacks of the event and
\* off(event, cb) takes it out, the callbacks of other events staying as
\* they are; notifyListeners(event, payload) calls exactly the callbacks
\* of the event, in registration order, each with the payload.
C18_Step ==
    /\ ret'.op = "on"
          => /\ Registered(listeners', ret'.event)
                    = Append(Registered(listeners, ret'.event), ret'.callback)
             /\ \A e \in ListenEvents \ {ret'.event} :
                    Registered(listeners', e) = Registered(listeners, e)
    /\ ret'.op = "off"
          => /\ Registered(listeners', ret'.event)
                    = Without(Registered(listeners, ret'.event), ret'.callback)
             /\ \A e \in ListenEvents \ {ret'.event} :
                    Registered(listeners', e) = Registered(listeners, e)
    /\ ret'.op = "notifyListeners"
          => /\ listeners' = listeners
             /\ ret'.invoked =
                    [k \in 1..Len(Registered(listeners, ret'.event)) |->
                        [callback |-> Registered(listeners, ret'.event)[k],
                         data |-> ret'.data]]

C18_NotifyCallsAllRegistered == [][C18_Step]_vars


\* The pending calls for the key of the fetchData call made in this step.
SameKeyPending ==
    {i \in 1..Len(calls) :
        /\ Pending(calls[i])
        /\ calls[i].key = GenerateCacheKey(ret'.endpoint, ret'.params)}

\* C20, as claimed: every fetchData call for the key of a call still
\* pending misses the cache and cancels that call, and with the attempt it
\* starts requestCount is 2 higher than before the first call.
C20_ClaimStep ==
    (FetchDataStep /\ Len(calls) = 1 /\ SameKeyPending = {1})
        => /\ ret'.outcome = "pending"
           /\ calls'[1].aborted
           /\ requestCount' = 2

RECURSIVE Attempts(_)
Attempts(cs) ==
    IF cs = <<>> THEN 0 ELSE Head(cs).attempts + Attempts(Tail(cs))

\* C20, amended.  A fetchData call for the key of a call still pending is
\* never joined to it.  It is answered from the cache only if it uses the
\* cache and every pending call for the key was made with useCache = false
\* or is already cancelled; then nothing is cancelled or counted.
\* Otherwise it misses: every pending call for the key is cancelled and is
\* otherwise as it was, and the new call starts its own first attempt,
\* counted in requestCount ...
C20_Step ==
    (FetchDataStep /\ SameKeyPending # {})
        => IF ret'.outcome = "resolved"
           THEN /\ ret'.useCache
                /\ \A i \in SameKeyPending : ~calls[i].useCache \/ calls[i].aborted
                /\ calls' = Append(calls, SettledCall)
                /\ requestCount' = requestCount
           ELSE /\ \A i \in SameKeyPending :
                      calls'[i] = [calls[i] EXCEPT !.aborted = TRUE]
                /\ LET new == calls'[Len(calls')]
                   IN  /\ new.pc = "fetch" /\ ~new.aborted
                       /\ new.attempts = 1
                /\ requestCount' = requestCount + 1

\* ... of the calls pending at a time only the newest is not cancelled; a
\* cancelled call ends rejected with the cancellation error, so that only
\* a call that was not cancelled receives data; and as long as no call
\* has ended, requestCount is the number of attempts the calls made, each
\* call's attempts counted for it alone: 2 when a second call was made
\* while the first was waiting for its first answer.
C20_Inv ==
    /\ \A i, j \in 1..Len(calls) :
          (i < j /\ Pending(calls[i]) /\ Pending(calls[j])) => calls[i].aborted
    /\ (ret.op = "settled" /\ ret.call.aborted)
          => ret.outcome = "rejected" /\ ret.value = AbortError
    /\ (\A i \in 1..Len(calls) : Pending(calls[i]))
          => requestCount = Attempts(calls)
    /\ ( /\ Len(calls) = 2
         /\ \A i \in {1, 2} : Pending(calls[i]) /\ calls[i].attempts = 1 )
          => requestCount = 2

ListenerThrew(e) ==
    /\ NotifyThrows(listeners, e)
    /\ \E k \in 1..Len(emitted') : emitted'[k].event = e

\* The call this step is a step of.
StepCall ==
    IF FetchDataStep THEN Len(calls')
    ELSE CHOOSE i \in 1..Len(calls) : calls'[i] # calls[i]

\* The call i as this step left it: in its backoff, or as it ended.
LeftAs(i) == IF calls'[i] = SettledCall THEN ret'.call ELSE calls'[i]

\* The exception of a request-started or request-success listener is
\* handled as the failure of the attempt: with retries left the call goes
\* into a backoff of retryDelay, nothing cached and no request-error
\* notified; with none left request-error is notified with the exception
\* and the call is rejected with a listener's exception.
HandledAsFailure(i) ==
    IF LeftAs(i).retries > 0
    THEN /\ calls'[i].pc = "delay" /\ calls'[i].wait = config.retryDelay
         /\ calls'[i].waits = LeftAs(i).attempts
         /\ ret'.op # "settled"
         /\ ret'.op = "fetchData" => ret'.outcome = "pending"
         /\ \A k \in 1..Len(emitted') : emitted'[k].event # "request-error"
    ELSE /\ calls'[i] = SettledCall
         /\ ret'.outcome = "rejected" /\ ret'.value = ListenerError
         /\ emitted'[Len(emitted')] = [event |-> "request-error", data |-> ListenerError]

\* A call leaves its backoff only when the delay has passed, and by
\* starting an attempt that is counted and notified.
BackoffEndsInAttempt ==
    \A i \in 1..Len(calls) :
        ( /\ calls[i].pc = "delay"
          /\ \/ calls'[i] = SettledCall
             \/ calls'[i].pc # "delay"
             \/ calls'[i].attempts # calls[i].attempts )
            => /\ calls[i].wait = 0
               /\ requestCount' = requestCount + 1
               /\ LeftAs(i).attempts = calls[i].attempts + 1
               /\ LeftAs(i).retries = calls[i].retries - 1
               /\ emitted'[1] = [event |-> "request-started", data |-> Null]

\* C21, as claimed: whenever a request-started or request-success listener
\* throws, the network call of the attempt had succeeded (the body of an
\* ok response had been parsed), and the exception is handled as a failure
\* of the attempt, the retry after the backoff being counted.
C21_ClaimStep ==
    /\ \A e \in {"request-started", "request-success"} :
          ListenerThrew(e)
              => /\ ~FetchDataStep /\ calls[StepCall].pc = "json"
                 /\ HandledAsFailure(StepCall)
    /\ BackoffEndsInAttempt

C21_ListenerExceptionFollowsNetworkSuccess == [][C21_ClaimStep]_vars

\* C21, amended.  The exception of a request-success listener is thrown
\* when the body of an ok response has been parsed, and nothing is cached;
\* that of a request-started listener is thrown where the attempt begins,
\* counted in requestCount, before fetch() is called, so that the attempt
\* makes no network call.  Either is handled as a failure of the attempt,
\* and the retry after the backoff is counted.
C21_Step ==
    /\ ListenerThrew("request-success")
          => /\ ~FetchDataStep /\ calls[StepCall].pc = "json"
             /\ cache' = cache /\ requestCount' = requestCount
             /\ HandledAsFailure(StepCall)
    /\ ListenerThrew("request-started")
          => /\ FetchDataStep \/ calls[StepCall].pc = "delay"
             /\ requestCount' = requestCount + 1
             /\ HandledAsFailure(StepCall)
    /\ BackoffEndsInAttempt

C21_ListenerExceptionFailsTheAttempt == [][C21_Step]_vars

\* A request-success listener threw on the answer to the first attempt of
\* a call, which went through its backoff and is now waiting for the
\* answer to its second attempt: two requests are counted.
C21_Witness ==
    /\ Len(calls) = 1 /\ calls[1].pc = "fetch"
    /\ calls[1].log = <<"request-started", "request-success", "request-started">>
    /\ calls[1].attempts = 2 /\ calls[1].waits = 1
    /\ NotifyThrows(listeners, "request-success")
    /\ requestCount = 2
    /\ cache = <<>>

====
